---- MODULE Spec2Model ----
(***************************************************************************)
(* VentureSight backend: the document store (pitch_decks,                  *)
(* council_analyses), the trigger_analysis endpoint, the council run       *)
(* (analyze_deck), deck upload, archive and delete, and the AI Associate   *)
(* tool loop (chat_with_associate).                                        *)
(*                                                                         *)
(* Every storage call and every LLM call is one step: these are the places *)
(* where a request or a background task can be overtaken by another one.   *)
(***************************************************************************)
EXTENDS Integers, Sequences, FiniteSets, TLC

VARIABLES
    decks,      \* table pitch_decks: deck id -> row
    analyses,   \* table council_analyses: deck id -> row (unique on deck_id)
    trig,       \* trigger_analysis requests
    runs,       \* background tasks running CouncilService.analyze_deck
    ups,        \* upload_deck / upload_deck_from_text calls
    dele,       \* the delete_deck call in flight
    chat,       \* one chat_with_associate call
    env,        \* what the external services (LLM, storage) may answer
    svc         \* one call of a service function: its inputs, then its result

vars == <<decks, analyses, trig, runs, ups, dele, chat, env, svc>>

(***************************************************************************)
(* Bounds of the model.                                                    *)
(***************************************************************************)
MaxDecks == 2       \* rows the pitch_decks table can hold
MaxTrig == 2        \* trigger_analysis requests
MaxRuns == 2        \* analyze_deck tasks
MaxUps == 2         \* upload calls
MaxRaw == 101       \* largest whole raw score the Consensus agent returns
ScoreUnit == 2      \* scores are counted in 1/ScoreUnit points
MaxCalls == 2       \* tool calls requested in one assistant turn
MaxLen == 2         \* characters of a query and of a chunk
MaxQueries == 5     \* queries one web search is handed
MaxConvs == 2       \* conversations ever created
MaxMsgs == 2        \* messages ever added to one conversation
MaxText == 2200     \* characters of a text given to a chunker

DeckIds == 1..MaxDecks
TrigIds == 1..MaxTrig
RunIds == 1..MaxRuns
UpIds == 1..MaxUps
Users == {"u1", "u2"}
Names == {"acme", "bolt"}
Contents == {"c1", "c2"}
Analysts == {"Optimist", "Skeptic", "Quant"}

(***************************************************************************)
(* Values.                                                                 *)
(***************************************************************************)
\* A JSON number n/ScoreUnit, a JSON value float() rejects, or a missing key.
Num(n) == [k |-> "num", v |-> n]
NotNum == [k |-> "str", v |-> 0]
Missing == [k |-> "missing", v |-> 0]

\* hashlib.sha256(file_bytes) and hashlib.sha256(raw_text.encode()): injective,
\* and taken over different inputs by the two upload paths.
HashBytes(c) == <<"bytes", c>>
HashText(t) == <<"text", t>>
NoHash == <<"none", "">>

\* extract_text_from_pdf: the text of a PDF; "" for a PDF with no text layer
\* whose vision extraction returns nothing.
ExtractText(c) == IF c = "c2" THEN "" ELSE "text of " \o c

\* The document text a chat passes to add_deal (at least 100 characters).
ChatText(c) == "chat text " \o c

\* crm_data maps, over the one research field the model follows.
\* "absent": the key is not in the map; "null": the key holds None.
CrmVals == {"absent", "null", "deck", "research", "consensus"}
NoCrm == [tam |-> "absent"]

\* {**a, **b}
DictMerge(a, b) == [tam |-> IF b.tam = "absent" THEN a.tam ELSE b.tam]

NoDeck == [ex |-> FALSE, user |-> "", name |-> "", hash |-> NoHash, text |-> "",
           status |-> "", score |-> Missing, crm |-> NoCrm]

\* The dict _run_consensus returns. {} is EmptyConsensus.
\* crm_data: "absent" (no key), "null" (None) or "dict".
EmptyConsensus == [final_score |-> Missing, recommendation |-> "", crm_data |-> "absent",
                   crm |-> NoCrm]

NoAnalysis == [ex |-> FALSE, optimist |-> "", skeptic |-> "", quant |-> "",
               consensus |-> EmptyConsensus]

NoOut == [a \in Analysts |-> ""]

\* overlaps: the requests for the same deck that had read it and not yet
\* answered when this one read it.  run: the task this request queued.
IdleTrig == [pc |-> "idle", deck |-> 0, user |-> "", text |-> "", outcome |-> "",
             overlaps |-> {}, run |-> 0]

\* out: what each _run_agent returned; debate: what _run_consensus was given;
\* raised: the analysts whose completion raised; raw: the final_score of the
\* Consensus agent's JSON before the code touched it; null_crm: that JSON had
\* "crm_data": null; res_raised: the research phase raised; given: the
\* research_context each agent was called with; cons_failed: the Consensus
\* completion raised or its content was not JSON; res: what the research of
\* the run found, while the run lasts.
IdleRun == [pc |-> "idle", deck |-> 0, text |-> "", research |-> "", crm_update |-> NoCrm,
            out |-> NoOut, debate |-> NoOut, raised |-> {}, consensus |-> EmptyConsensus,
            raw |-> Missing, null_crm |-> FALSE, res_raised |-> FALSE, cons_failed |-> FALSE,
            given |-> [a \in Analysts \cup {"Consensus"} |-> ""], res |-> "",
            end |-> ""]

\* kind: "pdf" (upload_deck) or "text" (upload_deck_from_text).  match: the
\* row the name lookup found.  returned: the id of the row the call returns.
\* dup: the row of the same owner that held the same fingerprint when the
\* call began; before: that row as it was then.  extracted, ingested, wrote:
\* whether the call ran metadata extraction, RAG ingestion, a row write.
\* deal: the call is made by the chat tool add_deal.  For a request to the
\* upload endpoint (kind "http"): file, size and content are the uploaded
\* file's name, length and bytes, code is the HTTP status of the response.
IdleUp == [pc |-> "idle", kind |-> "", deal |-> FALSE, file |-> <<>>, size |-> 0, content |-> "",
           code |-> 0, user |-> "", text |-> "", name |-> "",
           hash |-> NoHash, match |-> 0, returned |-> 0, dup |-> 0, before |-> NoDeck,
           extracted |-> FALSE, ingested |-> FALSE, wrote |-> ""]

IdleDel == [pc |-> "idle", deck |-> 0, user |-> ""]

\* No service function is being called.
NoCall == [fn |-> "", pc |-> "idle"]

\* The kinds of message chat_with_associate appends to its message list.
MsgKinds == {"assistant", "result", "failed", "unknown"}

\* model: how the language model of this conversation behaves.  llm_calls:
\* the completions requested so far.  pending: the tool calls of the last
\* response still to be run.  log: how many messages of each kind have been
\* appended; last: the kind of messages[-1].  asked: the number of tool calls
\* of the last assistant message, whose ids are 1..asked; after: the
\* tool_call_id of each tool message appended after that assistant message.
IdleChat == [pc |-> "idle", model |-> "", llm_calls |-> 0, pending |-> <<>>,
             log |-> [k \in MsgKinds |-> 0], last |-> "", reply |-> "",
             asked |-> 0, after |-> <<>>]

(***************************************************************************)
(* External services.  env fixes, for a whole behaviour, the answers the   *)
(* LLM and the store can give; each call picks one of them.                *)
(***************************************************************************)
\* A chat completion of an analyst: text, no content, or an exception.
AgentAnswers == {"text", "no_content", "raise"}
\* A storage call returns or raises.
StoreAnswers == {"ok", "raise"}

RawScores == (0 - ScoreUnit)..(MaxRaw * ScoreUnit)

\* The JSON object the Consensus agent returns, as parsed by json.loads.
ConsensusJson(fs, rec, cd, tam) ==
    [final_score |-> fs, recommendation |-> rec, crm_data |-> cd, crm |-> [tam |-> tam]]

\* ok = FALSE: the completion raised or its content was not JSON.
ConsensusRaises == [ok |-> FALSE, result |-> EmptyConsensus]

AllConsensusAnswers ==
    {ConsensusRaises}
    \cup {[ok |-> TRUE, result |-> ConsensusJson(Num(n), rec, "dict", "consensus")] :
            n \in RawScores, rec \in {"Pass", "Invest", ""}}
    \cup {[ok |-> TRUE, result |-> ConsensusJson(fs, rec, "dict", "absent")] :
            fs \in {NotNum, Missing}, rec \in {"Pass", "Invest", ""}}
    \cup {[ok |-> TRUE, result |-> ConsensusJson(Num(7 * ScoreUnit), "Invest", cd, "absent")] :
            cd \in {"absent", "null"}}

FewConsensusAnswers ==
    {[ok |-> TRUE, result |-> ConsensusJson(Num(7 * ScoreUnit), "Invest", "dict", "consensus")],
     [ok |-> TRUE, result |-> ConsensusJson(Num(85 * ScoreUnit), "Pass", "null", "absent")]}

\* env.consensus names the range of Consensus answers of a behaviour; in the
\* range "no_tam" the agent's crm_data has no TAM.
ConsensusAnswers(range) ==
    IF range = "all" THEN AllConsensusAnswers
    ELSE IF range = "no_tam"
         THEN {[ok |-> TRUE, result |-> ConsensusJson(Num(7 * ScoreUnit), "Invest", "dict", "absent")],
               [ok |-> TRUE, result |-> ConsensusJson(Num(85 * ScoreUnit), "Pass", "null", "absent")]}
         ELSE FewConsensusAnswers

(***************************************************************************)
(* CouncilService._run_consensus: the recommendation is forced in code.    *)
(***************************************************************************)
NormLimit == 10
NormFactor == 10
PassBelow == 60
InvestFrom == 80

\* Variant: a ten on the ten-point scale is not normalized.
OnTenScaleBelowTen(score) == score > 0 /\ score < NormLimit * ScoreUnit

\* "if score > 0 and score <= 10.0"
OnTenScale(score) == score > 0 /\ score <= NormLimit * ScoreUnit

\* Variant: the thresholds take 60 as Pass and 80 as Consider.
RecommendationInclusive(score) ==
    IF score <= PassBelow * ScoreUnit THEN "Pass"
    ELSE IF score <= InvestFrom * ScoreUnit THEN "Consider"
    ELSE "Invest"

Recommendation(score) ==
    IF score < PassBelow * ScoreUnit THEN "Pass"
    ELSE IF score < InvestFrom * ScoreUnit THEN "Consider"
    ELSE "Invest"

\* Lines 259-277: float(result.get("final_score", 0)) raises on a value that is
\* no number, and the except leaves result as the model returned it.
ForceRecommendation(result) ==
    IF result.final_score.k = "str" THEN result
    ELSE LET raw == IF result.final_score.k = "missing" THEN 0 ELSE result.final_score.v
             score == IF OnTenScale(raw) THEN raw * NormFactor ELSE raw
         IN  [result EXCEPT
                !.final_score = IF OnTenScale(raw) THEN Num(score) ELSE @,
                !.recommendation = Recommendation(score)]

\* Variant: _run_consensus answers an exception with a result the merge at
\* line 144 cannot take.
RunConsensusNoDict(answer) ==
    IF answer.ok THEN ForceRecommendation(answer.result)
    ELSE [EmptyConsensus EXCEPT !.crm_data = "null"]

\* _run_consensus as a whole: {} on any exception.
RunConsensus(answer) ==
    IF answer.ok THEN ForceRecommendation(answer.result) ELSE EmptyConsensus

\* An exception that leaves the function instead of a return value.
Uncaught == "<exception>"
ErrorPlaceholder == "Error running agent."
EmptyPlaceholder == "agent failed to generate analysis."

\* Variant: _run_agent without its try/except.
RunAgentUnguarded(answer) ==
    CASE answer = "text" -> "analysis"
      [] answer = "no_content" -> EmptyPlaceholder
      [] OTHER -> Uncaught

\* _run_agent: the text, or a placeholder for no content or an exception.
RunAgent(answer) ==
    CASE answer = "text" -> "analysis"
      [] answer = "no_content" -> EmptyPlaceholder
      [] OTHER -> ErrorPlaceholder

(***************************************************************************)
(* Slots.  A request or task takes the lowest idle slot and keeps it.      *)
(***************************************************************************)
LowestIdle(f) == CHOOSE i \in DOMAIN f : f[i].pc = "idle" /\ \A j \in DOMAIN f : j < i => f[j].pc # "idle"
HasIdle(f) == \E i \in DOMAIN f : f[i].pc = "idle"

\* Queue analyze_deck(deck_id, deck_text, thesis) as a background task.
QueueRun(d, text) ==
    [runs EXCEPT ![LowestIdle(runs)] = [IdleRun EXCEPT !.pc = "queued", !.deck = d, !.text = text]]

(***************************************************************************)
(* api/council.py trigger_analysis.                                        *)
(***************************************************************************)
\* PDFService.get_deck(deck_id, user_id): the row, or None.
GetDeck(d, u) == IF decks[d].ex /\ decks[d].user = u THEN decks[d] ELSE NoDeck

\* PDFService.update_deck_status: UPDATE ... WHERE id = deck_id, no owner filter.
UpdateDeckStatus(d, st) ==
    IF decks[d].ex THEN [decks EXCEPT ![d].status = st] ELSE decks

\* Lines 56-61: the guard that answers "Analysis already in progress".
InProgress(deck) == deck.status = "analyzing"

\* Lines 52-61: read the deck; 404, "already in progress", or go on.
TrigRead(d, u) ==
    /\ HasIdle(trig)
    /\ LET t == LowestIdle(trig)
           deck == GetDeck(d, u)
           req == [IdleTrig EXCEPT !.deck = d, !.user = u,
                      !.overlaps = {o \in TrigIds : trig[o].pc = "accept" /\ trig[o].deck = d}]
       IN  trig' = [trig EXCEPT ![t] =
                IF ~deck.ex THEN [req EXCEPT !.pc = "done", !.outcome = "not_found"]
                ELSE IF InProgress(deck)
                     THEN [req EXCEPT !.pc = "done", !.outcome = "in_progress"]
                     ELSE [req EXCEPT !.pc = "accept", !.text = deck.text]]
    /\ UNCHANGED <<decks, analyses, runs, ups, dele, chat, env, svc>>

\* Lines 63-81: write status analyzing (a failed write is logged and ignored),
\* queue the background task, answer "Analysis started".
TrigAccept(t) ==
    /\ trig[t].pc = "accept"
    /\ HasIdle(runs)
    /\ \E st \in env.store :
         decks' = IF st = "ok" THEN UpdateDeckStatus(trig[t].deck, "analyzing") ELSE decks
    /\ runs' = QueueRun(trig[t].deck, trig[t].text)
    /\ trig' = [trig EXCEPT ![t].pc = "done", ![t].outcome = "started",
                            ![t].run = LowestIdle(runs)]
    /\ UNCHANGED <<analyses, ups, dele, chat, env, svc>>

(***************************************************************************)
(* CouncilService.analyze_deck, one background task per run slot.          *)
(***************************************************************************)
\* The task has returned and its locals are gone.  What is kept is what the
\* task was (deck, text) and how it went: the analyst calls that raised and the
\* way it ended ("no_text", "saved", "save_failed", "status_failed", "failed",
\* "except_failed").
Finished(run, how) ==
    [IdleRun EXCEPT !.pc = "done", !.deck = run.deck, !.text = run.text,
                    !.raised = run.raised, !.debate = run.debate, !.raw = run.raw,
                    !.null_crm = run.null_crm, !.res_raised = run.res_raised,
                    !.cons_failed = run.cons_failed,
                    !.given = run.given, !.end = how]

\* Lines 49-52: no deck text: log and return.  Otherwise the research phase
\* starts (its first LLM call is in flight).
RunStart(r) ==
    /\ runs[r].pc = "queued"
    /\ runs' = [runs EXCEPT ![r] = IF runs[r].text = "" THEN Finished(@, "no_text")
                                  ELSE [@ EXCEPT !.pc = "research"]]
    /\ UNCHANGED <<decks, analyses, trig, ups, dele, chat, env, svc>>

\* Variant: the research phase without its try/except: the exception reaches
\* the outer except of analyze_deck.
RunResearchUncaught(r) ==
    /\ runs[r].pc = "research"
    /\ \E res \in env.research :
         runs' = IF res \in {"raise", "tam_alone"}
                 THEN [runs EXCEPT ![r].pc = "except", ![r].res_raised = TRUE, ![r].res = res]
                 ELSE [runs EXCEPT
                         ![r].pc = "agents",
                         ![r].research = "verified",
                         ![r].res = res,
                         ![r].crm_update = [tam |-> IF res = "tam" THEN "research" ELSE "null"],
                         ![r].given = [a \in DOMAIN @ |-> IF a \in Analysts THEN "verified" ELSE @[a]],
                         ![r].out = [a \in Analysts |-> "running"]]
    /\ UNCHANGED <<decks, analyses, trig, ups, dele, chat, env, svc>>

\* Lines 64-128: the research phase ends, with facts or with the
\* "unavailable" marker; lines 131-137 then start the three analysts with
\* that research_context.  res is what the research gave: "tam" a TAM and
\* competitors, "no_tam" competitors only, "tam_alone" a TAM and an empty
\* competitor list, for which comp_result[0] at line 106 raises IndexError
\* inside the try; "raise" is any other exception in the phase.
RunResearch(r) ==
    /\ runs[r].pc = "research"
    /\ \E res \in env.research :
         LET raised == res \in {"raise", "tam_alone"}
             ctx == IF raised THEN "unavailable" ELSE "verified" IN
         runs' = [runs EXCEPT
            ![r].pc = "agents",
            ![r].research = ctx,
            ![r].res = res,
            ![r].res_raised = raised,
            ![r].crm_update = IF raised THEN NoCrm
                              ELSE [tam |-> IF res = "tam" THEN "research" ELSE "null"],
            ![r].given = [a \in DOMAIN @ |-> IF a \in Analysts THEN ctx ELSE @[a]],
            ![r].out = [a \in Analysts |-> "running"]]
    /\ UNCHANGED <<decks, analyses, trig, ups, dele, chat, env, svc>>

\* _run_agent of one analyst returns.  (An exception out of it would leave
\* gather and reach the outer except of analyze_deck.)
RunAgentDone(r, a) ==
    /\ runs[r].pc = "agents"
    /\ runs[r].out[a] = "running"
    /\ \E ans \in env.agent :
         runs' = [runs EXCEPT
            ![r].pc = IF RunAgent(ans) = Uncaught THEN "except" ELSE @,
            ![r].out[a] = RunAgent(ans),
            ![r].raised = IF ans = "raise" THEN @ \cup {a} ELSE @]
    /\ UNCHANGED <<decks, analyses, trig, ups, dele, chat, env, svc>>

\* Variant: the orchestrator goes on as soon as one analyst is back.
GatheredFirst(r) == \E a \in Analysts : runs[r].out[a] # "running"

\* asyncio.gather(optimist_task, skeptic_task, quant_task) has returned.
Gathered(r) == \A a \in Analysts : runs[r].out[a] # "running"

\* Line 140: _run_consensus is called with the three results.
RunConsensusStart(r) ==
    /\ runs[r].pc = "agents"
    /\ Gathered(r)
    /\ runs' = [runs EXCEPT ![r].pc = "consensus", ![r].debate = runs[r].out,
                            ![r].given["Consensus"] = runs[r].research]
    /\ UNCHANGED <<decks, analyses, trig, ups, dele, chat, env, svc>>

\* Lines 140-158: _run_consensus returns; the research and consensus CRM maps
\* are merged.  {**crm_update, **None} raises into the outer except.
RunConsensusDone(r) ==
    /\ runs[r].pc = "consensus"
    /\ \E ans \in ConsensusAnswers(env.consensus) :
         LET res == RunConsensus(ans)
             final_crm == DictMerge(runs[r].crm_update,
                                    IF res.crm_data = "dict" THEN res.crm ELSE NoCrm)
         IN  runs' = [runs EXCEPT
                ![r].raw = IF ans.ok THEN ans.result.final_score ELSE Missing,
                ![r].null_crm = (res.crm_data = "null"),
                ![r].cons_failed = ~ans.ok,
                ![r].pc = IF res.crm_data = "null" THEN "except" ELSE "save",
                ![r].consensus = IF res.crm_data = "null" THEN res
                                 ELSE [res EXCEPT !.crm_data = "dict", !.crm = final_crm]]
    /\ UNCHANGED <<decks, analyses, trig, ups, dele, chat, env, svc>>

\* The row analyze_deck builds for council_analyses (lines 152-158).
AnalysisRecord(r) ==
    [ex |-> TRUE, optimist |-> runs[r].out["Optimist"], skeptic |-> runs[r].out["Skeptic"],
     quant |-> runs[r].out["Quant"], consensus |-> runs[r].consensus]

\* consensus.get("final_score", 0)
MatchScore(consensus) ==
    IF consensus.final_score.k = "missing" THEN Num(0) ELSE consensus.final_score

\* _save_analysis, line 290: upsert the record.  An exception is caught:
\* _save_analysis returns False and analyze_deck only logs.
RunSaveUpsert(r) ==
    /\ runs[r].pc = "save"
    /\ \E st \in env.store :
         IF st = "ok"
         THEN /\ analyses' = [analyses EXCEPT ![runs[r].deck] = AnalysisRecord(r)]
              /\ runs' = [runs EXCEPT ![r].pc = "status"]
         ELSE /\ analyses' = analyses
              /\ runs' = [runs EXCEPT ![r] = Finished(@, "save_failed")]
    /\ UNCHANGED <<decks, trig, ups, dele, chat, env, svc>>

\* _save_analysis, lines 297-300: status analyzed and the match score.
SaveStatus(d, consensus) ==
    IF decks[d].ex
    THEN [decks EXCEPT ![d].status = "analyzed", ![d].score = MatchScore(consensus)]
    ELSE decks

RunSaveStatus(r) ==
    /\ runs[r].pc = "status"
    /\ \E st \in env.store :
         IF st = "ok"
         THEN /\ decks' = SaveStatus(runs[r].deck, runs[r].consensus)
              /\ runs' = [runs EXCEPT ![r].pc = "crm"]
         ELSE /\ decks' = decks
              /\ runs' = [runs EXCEPT ![r] = Finished(@, "status_failed")]
    /\ UNCHANGED <<analyses, trig, ups, dele, chat, env, svc>>

\* Lines 165-184: merge final_crm into the deck's crm_data; any exception
\* (the row is gone, the store raises) is logged.
RunCrm(r) ==
    /\ runs[r].pc = "crm"
    /\ LET d == runs[r].deck IN
       \E st \in env.store :
         decks' = IF st = "ok" /\ decks[d].ex
                  THEN [decks EXCEPT ![d].crm = DictMerge(@, runs[r].consensus.crm)]
                  ELSE decks
    /\ runs' = [runs EXCEPT ![r] = Finished(@, "saved")]
    /\ UNCHANGED <<analyses, trig, ups, dele, chat, env, svc>>

\* Lines 188-192: the outer except writes status failed; if that write raises
\* the task ends with the exception.
RunExcept(r) ==
    /\ runs[r].pc = "except"
    /\ \E st \in env.store :
         /\ decks' = IF st = "ok" THEN UpdateDeckStatus(runs[r].deck, "failed") ELSE decks
         /\ runs' = [runs EXCEPT ![r] = Finished(@, IF st = "ok" THEN "failed" ELSE "except_failed")]
    /\ UNCHANGED <<analyses, trig, ups, dele, chat, env, svc>>

RunStep(r) ==
    \/ RunStart(r)
    \/ RunResearch(r)
    \/ \E a \in Analysts : RunAgentDone(r, a)
    \/ RunConsensusStart(r)
    \/ RunConsensusDone(r)
    \/ RunSaveUpsert(r)
    \/ RunSaveStatus(r)
    \/ RunCrm(r)
    \/ RunExcept(r)

(***************************************************************************)
(* api/decks.py archive_deck and PDFService.delete_deck.                   *)
(***************************************************************************)
\* archive_deck: update_deck_status(deck_id, "archived"); user_id is unused.
ArchiveDeck(d, u) ==
    /\ decks[d].ex
    /\ decks[d].status # "archived"
    /\ \E st \in env.store :
         decks' = IF st = "ok" THEN UpdateDeckStatus(d, "archived") ELSE decks
    /\ UNCHANGED <<analyses, trig, runs, ups, dele, chat, env, svc>>

\* A deleted row: ids are UUIDs and are never given out again.
Deleted == [NoDeck EXCEPT !.status = "deleted"]

\* delete_deck, lines 509-512: the chunks and the analysis of deck_id go
\* first, whoever owns the deck.
DeleteAnalysis(d, u) ==
    /\ dele.pc = "idle"
    /\ decks[d].ex
    /\ analyses' = [analyses EXCEPT ![d] = NoAnalysis]
    /\ dele' = [pc |-> "deck", deck |-> d, user |-> u]
    /\ UNCHANGED <<decks, trig, runs, ups, chat, env, svc>>

\* delete_deck, line 515: DELETE ... WHERE id = deck_id AND user_id = user_id.
DeleteRow ==
    /\ dele.pc = "deck"
    /\ decks' = IF decks[dele.deck].user = dele.user
                THEN [decks EXCEPT ![dele.deck] = Deleted] ELSE decks
    /\ dele' = IdleDel
    /\ UNCHANGED <<analyses, trig, runs, ups, chat, env, svc>>

(***************************************************************************)
(* Spec: one uploaded deck; trigger requests, the runs they queue, archive *)
(* and delete, in every interleaving of their storage and LLM steps.       *)
(***************************************************************************)
\* The row upload_deck leaves for PDF content c (lines 214-234).
UploadedDeck(u, n, c, tam) ==
    [ex |-> TRUE, user |-> u, name |-> n, hash |-> HashBytes(c), text |-> ExtractText(c),
     status |-> "pending", score |-> Missing, crm |-> [tam |-> tam]]

NoTasks ==
    /\ trig = [t \in TrigIds |-> IdleTrig]
    /\ runs = [r \in RunIds |-> IdleRun]
    /\ ups = [i \in UpIds |-> IdleUp]
    /\ dele = IdleDel
    /\ chat = IdleChat
    /\ svc = NoCall

Init ==
    /\ \E c \in Contents, tam \in {"null", "deck"} :
         decks = [d \in DeckIds |-> IF d = 1 THEN UploadedDeck("u1", "acme", c, tam) ELSE NoDeck]
    /\ analyses = [d \in DeckIds |-> NoAnalysis]
    /\ NoTasks
    /\ env = [store |-> StoreAnswers, agent |-> {"text", "raise"},
              research |-> {"raise", "tam"}, consensus |-> "few"]

Next ==
    \/ \E d \in DeckIds, u \in Users : TrigRead(d, u)
    \/ \E t \in TrigIds : TrigAccept(t)
    \/ \E r \in RunIds : RunStep(r)
    \/ \E d \in DeckIds, u \in Users : ArchiveDeck(d, u)

Spec == Init /\ [][Next]_vars

(***************************************************************************)
(* SpecRun: one analyze_deck task, as trigger_analysis queues it for a     *)
(* deck with text, against every answer the LLM and the store can give.    *)
(***************************************************************************)
InitRun ==
    /\ decks = [d \in DeckIds |->
                  IF d = 1 THEN [UploadedDeck("u1", "acme", "c1", "deck") EXCEPT !.status = "analyzing"]
                  ELSE NoDeck]
    /\ analyses = [d \in DeckIds |-> NoAnalysis]
    /\ trig = [t \in TrigIds |-> IdleTrig]
    /\ runs = [r \in RunIds |->
                  IF r = 1 THEN [IdleRun EXCEPT !.pc = "queued", !.deck = 1, !.text = ExtractText("c1")]
                  ELSE IdleRun]
    /\ ups = [i \in UpIds |-> IdleUp]
    /\ dele = IdleDel
    /\ chat = IdleChat
    /\ svc = NoCall
    /\ env = [store |-> StoreAnswers, agent |-> AgentAnswers,
              research |-> {"raise", "tam", "no_tam", "tam_alone"}, consensus |-> "all"]

NextRun == \E r \in RunIds : RunStep(r)

SpecRun == InitRun /\ [][NextRun]_vars

(***************************************************************************)
(* SpecShared: the deck of one user with its run queued, while any user    *)
(* calls archive and delete on it; the store does not fail.                *)
(***************************************************************************)
InitShared ==
    /\ decks = [d \in DeckIds |->
                  IF d = 1 THEN [UploadedDeck("u1", "acme", "c1", "deck") EXCEPT !.status = "analyzing"]
                  ELSE NoDeck]
    /\ analyses = [d \in DeckIds |-> NoAnalysis]
    /\ trig = [t \in TrigIds |-> IdleTrig]
    /\ runs = [r \in RunIds |->
                  IF r = 1 THEN [IdleRun EXCEPT !.pc = "queued", !.deck = 1, !.text = ExtractText("c1")]
                  ELSE IdleRun]
    /\ ups = [i \in UpIds |-> IdleUp]
    /\ dele = IdleDel
    /\ chat = IdleChat
    /\ svc = NoCall
    /\ env = [store |-> {"ok"}, agent |-> {"text"}, research |-> {"tam"}, consensus |-> "few"]

NextShared ==
    \/ \E r \in RunIds : RunStep(r)
    \/ \E d \in DeckIds, u \in Users : ArchiveDeck(d, u)
    \/ \E d \in DeckIds, u \in Users : DeleteAnalysis(d, u)
    \/ DeleteRow

SpecShared == InitShared /\ [][NextShared]_vars


(***************************************************************************)
(* PDFService.upload_deck and upload_deck_from_text.                       *)
(***************************************************************************)
\* SELECT ... WHERE user_id = u AND content_hash = h
ByHash(u, h) == {d \in DeckIds : decks[d].ex /\ decks[d].user = u /\ decks[d].hash = h}

\* SELECT ... WHERE user_id = u AND startup_name = n AND status != 'archived'
ByName(u, n) ==
    {d \in DeckIds : decks[d].ex /\ decks[d].user = u /\ decks[d].name = n
                     /\ decks[d].status # "archived"}

\* The id the store gives to an inserted row.
FreeIds == {d \in DeckIds : ~decks[d].ex /\ decks[d].status = ""}
NewId == CHOOSE d \in FreeIds : \A e \in FreeIds : d <= e

\* deck_data (lines 226-234, 453-461): every column an upload writes.
DeckData(up, tam) ==
    [ex |-> TRUE, user |-> up.user, name |-> up.name, hash |-> up.hash, text |-> up.text,
     status |-> "pending", crm |-> [tam |-> tam]]

\* UPDATE pitch_decks SET deck_data WHERE id = d: match_score is kept.
UpdateRow(d, data) ==
    [decks EXCEPT ![d] = [ex |-> TRUE, user |-> data.user, name |-> data.name,
                          hash |-> data.hash, text |-> data.text, status |-> data.status,
                          score |-> @.score, crm |-> data.crm]]

InsertRow(data) ==
    [decks EXCEPT ![NewId] = [ex |-> TRUE, user |-> data.user, name |-> data.name,
                              hash |-> data.hash, text |-> data.text, status |-> data.status,
                              score |-> Missing, crm |-> data.crm]]

\* The call begins: its fingerprint, and the row that already holds it.
Begin(kind, u, text, h) ==
    [IdleUp EXCEPT !.kind = kind, !.user = u, !.text = text, !.hash = h,
        !.dup = IF ByHash(u, h) = {} THEN 0 ELSE CHOOSE d \in ByHash(u, h) : TRUE,
        !.before = IF ByHash(u, h) = {} THEN NoDeck ELSE decks[CHOOSE d \in ByHash(u, h) : TRUE]]

\* The exact-content check (lines 172-182, 426-439): the first row with the
\* fingerprint is returned and nothing else is done.
HashLookup(up) ==
    IF ByHash(up.user, up.hash) = {} THEN [up EXCEPT !.pc = "extract"]
    ELSE [up EXCEPT !.pc = "done", !.returned = CHOOSE d \in ByHash(up.user, up.hash) : TRUE]

\* upload_deck, lines 168-182: hash the bytes and look the hash up.  A store
\* exception reaches the outer except: the call returns None.
UploadPdfLookup(u, c) ==
    /\ HasIdle(ups)
    /\ LET i == LowestIdle(ups)
           up == Begin("pdf", u, ExtractText(c), HashBytes(c))
       IN  \E st \in env.store :
             ups' = [ups EXCEPT ![i] = IF st = "ok" THEN HashLookup(up)
                                       ELSE [up EXCEPT !.pc = "done"]]
    /\ UNCHANGED <<decks, analyses, trig, runs, dele, chat, env, svc>>

\* upload_deck, lines 184-211: text and metadata extraction; the name is the
\* extracted one or the fallback from the text or the file name.
UploadPdfExtract(i) ==
    /\ ups[i].pc = "extract"
    /\ ups[i].kind = "pdf"
    /\ \E n \in Names :
         ups' = [ups EXCEPT ![i].pc = "name", ![i].name = n, ![i].extracted = TRUE]
    /\ UNCHANGED <<decks, analyses, trig, runs, dele, chat, env, svc>>

\* upload_deck_from_text, lines 407-424: metadata extraction comes first; the
\* name is the caller's, the extracted one or the file name.
UploadTextExtract(u, c, deal) ==
    /\ HasIdle(ups)
    /\ LET i == LowestIdle(ups)
           up == Begin("text", u, ChatText(c), HashText(ChatText(c)))
       IN  \E n \in Names :
             ups' = [ups EXCEPT ![i] = [up EXCEPT !.pc = "hash", !.name = n, !.deal = deal,
                                                  !.extracted = TRUE]]
    /\ UNCHANGED <<decks, analyses, trig, runs, dele, chat, env, svc>>

\* tools/pipeline.py add_deal, lines 150-158: upload_deck_from_text has
\* returned a deck; analyze_deck(deck['id'], document_context, thesis) is
\* started as a task.  The deck's status is not written.
StartDealRun(up, deck) ==
    IF up.deal /\ deck # 0 THEN QueueRun(deck, up.text) ELSE runs

\* upload_deck_from_text, lines 426-439: the exact-content check; a store
\* exception is passed over and the call goes on to the name lookup.
UploadTextLookup(i) ==
    /\ ups[i].pc = "hash"
    /\ ups[i].deal => HasIdle(runs)
    /\ \E st \in env.store :
         ups' = [ups EXCEPT ![i] = IF st = "ok" THEN [HashLookup(@) EXCEPT
                                                        !.pc = IF @ = "extract" THEN "name" ELSE @]
                                   ELSE [@ EXCEPT !.pc = "name"]]
    /\ runs' = StartDealRun(ups[i], ups'[i].returned)
    /\ UNCHANGED <<decks, analyses, trig, dele, chat, env, svc>>

\* Lines 237-245, 464-473: the name lookup; the first match is taken.  On a
\* store exception the call goes on to insert.
UploadNameLookup(i) ==
    /\ ups[i].pc = "name"
    /\ \E st \in env.store :
         \E m \in IF st = "ok" /\ ByName(ups[i].user, ups[i].name) # {}
                  THEN ByName(ups[i].user, ups[i].name) ELSE {0} :
            ups' = [ups EXCEPT ![i].pc = "write", ![i].match = m]
    /\ UNCHANGED <<decks, analyses, trig, runs, dele, chat, env, svc>>

\* Lines 246-263, 472-483: update the matched row or insert a new one.  An
\* update of a row that is gone, or a store exception, returns no row: the
\* call ends without a deck.
UploadWrite(i) ==
    /\ ups[i].pc = "write"
    /\ ups[i].match = 0 => FreeIds # {}
    /\ ups[i].deal => HasIdle(runs)
    /\ LET up == ups[i]
           data == DeckData(up, "deck")
       IN  \E st \in env.store :
             IF st = "ok" /\ up.match # 0 /\ decks[up.match].ex
             THEN /\ decks' = UpdateRow(up.match, data)
                  /\ ups' = [ups EXCEPT ![i].pc = "ingest", ![i].returned = up.match,
                                        ![i].wrote = "update"]
             ELSE IF st = "ok" /\ up.match = 0
             THEN /\ decks' = InsertRow(data)
                  /\ ups' = [ups EXCEPT ![i].pc = "ingest", ![i].returned = NewId,
                                        ![i].wrote = "insert"]
             ELSE /\ decks' = decks
                  /\ ups' = [ups EXCEPT ![i].pc = "done"]
    /\ runs' = StartDealRun(ups[i], ups'[i].returned)
    /\ UNCHANGED <<analyses, trig, dele, chat, env, svc>>

\* Lines 265-272, 485-494: rag_service.ingest_deck for the written row, awaited
\* by upload_deck and started as a task by upload_deck_from_text.
UploadIngest(i) ==
    /\ ups[i].pc = "ingest"
    /\ ups' = [ups EXCEPT ![i].pc = "done", ![i].ingested = TRUE]
    /\ UNCHANGED <<decks, analyses, trig, runs, dele, chat, env, svc>>

\* deck_chunks: the ingest_deck calls whose rows the table holds for the row
\* d of pitch_decks.  ingest_deck inserts the chunks of its text (none for an
\* empty text) and deletes nothing; only delete_deck removes chunks, and it
\* goes on to remove the row.
StoredChunks(d) ==
    {i \in UpIds : ups[i].ingested /\ ups[i].returned = d /\ ups[i].text # ""}

UploadStep(i) ==
    \/ UploadPdfExtract(i)
    \/ UploadTextLookup(i)
    \/ UploadNameLookup(i)
    \/ UploadWrite(i)
    \/ UploadIngest(i)

(***************************************************************************)
(* SpecSerial: one client whose requests (upload, archive, trigger,        *)
(* delete) are served one after the other by a store that does not fail;   *)
(* the background runs that triggers queue go on in between.               *)
(***************************************************************************)
RequestInFlight ==
    \/ \E i \in UpIds : ups[i].pc \notin {"idle", "done"}
    \/ \E t \in TrigIds : trig[t].pc \notin {"idle", "done"}
    \/ dele.pc # "idle"

InitSerial ==
    /\ decks = [d \in DeckIds |-> NoDeck]
    /\ analyses = [d \in DeckIds |-> NoAnalysis]
    /\ NoTasks
    /\ env = [store |-> {"ok"}, agent |-> {"text"}, research |-> {"tam"}, consensus |-> "few"]

\* The client of SpecSerial.
Client == "u1"

NextSerial ==
    \/ ~RequestInFlight /\ \E c \in Contents : UploadPdfLookup(Client, c)
    \/ ~RequestInFlight /\ \E c \in Contents : UploadTextExtract(Client, c, FALSE)
    \/ \E i \in UpIds : UploadStep(i)
    \/ ~RequestInFlight /\ \E d \in DeckIds : TrigRead(d, Client)
    \/ \E t \in TrigIds : TrigAccept(t)
    \/ \E r \in RunIds : RunStep(r)
    \/ ~RequestInFlight /\ \E d \in DeckIds : ArchiveDeck(d, Client)
    \/ ~RequestInFlight /\ \E d \in DeckIds : DeleteAnalysis(d, Client)
    \/ DeleteRow

SpecSerial == InitSerial /\ [][NextSerial]_vars


(***************************************************************************)
(* SpecDeal: one client in a chat that uses add_deal, and who triggers     *)
(* analyses; requests are served one after the other by a store that does  *)
(* not fail, the runs go on in the background.                             *)
(***************************************************************************)
InitDeal ==
    /\ decks = [d \in DeckIds |-> NoDeck]
    /\ analyses = [d \in DeckIds |-> NoAnalysis]
    /\ NoTasks
    /\ env = [store |-> {"ok"}, agent |-> {"text"}, research |-> {"tam"}, consensus |-> "few"]

NextDeal ==
    \/ ~RequestInFlight /\ \E c \in Contents : UploadTextExtract(Client, c, TRUE)
    \/ ~RequestInFlight /\ \E c \in Contents : UploadPdfLookup(Client, c)
    \/ \E i \in UpIds : UploadStep(i)
    \/ ~RequestInFlight /\ \E d \in DeckIds : TrigRead(d, Client)
    \/ \E t \in TrigIds : TrigAccept(t)
    \/ \E r \in RunIds : RunStep(r)

SpecDeal == InitDeal /\ [][NextDeal]_vars


(***************************************************************************)
(* api/decks.py upload_deck: the upload endpoint, with the fast save and   *)
(* the background processing it hands the file to.                         *)
(***************************************************************************)
\* File names, as a stem and an extension; <<>> is a missing file name.
Files == {<<>>, <<"deck", ".pdf">>, <<"DECK", ".PDF">>, <<"deck", ".txt">>}

\* str.lower()
Lower(tok) == IF tok = ".PDF" THEN ".pdf" ELSE IF tok = "DECK" THEN "deck" ELSE tok

\* 20 * 1024 * 1024
UploadLimit == 20 * 1024 * 1024
Sizes == {1, UploadLimit, UploadLimit + 1}

ValidUploadAnySize(file, size) ==
    /\ file # <<>>
    /\ Lower(file[Len(file)]) = ".pdf"

\* Lines 101-111: the three checks that answer 400.
ValidUpload(file, size) ==
    /\ file # <<>>
    /\ Lower(file[Len(file)]) = ".pdf"
    /\ ~(size > UploadLimit)

\* save_upload: the row of the fast save, pending, with no text yet.
SaveUpload(up) ==
    [user |-> up.user, name |-> "", hash |-> up.hash, text |-> "", status |-> "pending",
     crm |-> NoCrm]

UploadRequestSync(u, file, size, c) ==
    /\ HasIdle(ups)
    /\ FreeIds # {}
    /\ LET i == LowestIdle(ups)
           up == [Begin("http", u, "", HashBytes(c)) EXCEPT
                     !.file = file, !.size = size, !.content = c, !.pc = "done"]
       IN  IF ~ValidUpload(file, size)
           THEN /\ ups' = [ups EXCEPT ![i] = [up EXCEPT !.code = 400]]
                /\ decks' = decks
           ELSE /\ ups' = [ups EXCEPT ![i] = [up EXCEPT !.code = 200, !.returned = NewId,
                                                        !.extracted = TRUE, !.pc = "bg_trigger",
                                                        !.text = ExtractText(c)]]
                /\ decks' = InsertRow([SaveUpload(up) EXCEPT !.text = ExtractText(c)])
    /\ UNCHANGED <<analyses, trig, runs, dele, chat, env, svc>>

\* upload_deck (the endpoint), lines 91-131: validate, read, save_upload,
\* queue process_deck_background, return the deck.
UploadRequest(u, file, size, c) ==
    /\ HasIdle(ups)
    /\ FreeIds # {}
    /\ LET i == LowestIdle(ups)
           up == [Begin("http", u, "", HashBytes(c)) EXCEPT
                     !.file = file, !.size = size, !.content = c, !.pc = "done"]
       IN  IF ~ValidUpload(file, size)
           THEN /\ ups' = [ups EXCEPT ![i] = [up EXCEPT !.code = 400]]
                /\ decks' = decks
           ELSE \E st \in env.store :
                  IF st = "ok"
                  THEN /\ ups' = [ups EXCEPT ![i] = [up EXCEPT !.code = 200, !.returned = NewId,
                                                               !.pc = "bg"]]
                       /\ decks' = InsertRow(SaveUpload(up))
                  ELSE /\ ups' = [ups EXCEPT ![i] = [up EXCEPT !.code = 500]]
                       /\ decks' = decks
    /\ UNCHANGED <<analyses, trig, runs, dele, chat, env, svc>>

\* process_deck_background: text extraction, metadata extraction and
\* retrieval ingestion for the saved row.
BgProcess(i) ==
    /\ ups[i].pc = "bg"
    /\ LET d == ups[i].returned
           text == ExtractText(ups[i].content)
       IN  \E n \in Names :
             /\ decks' = IF decks[d].ex
                         THEN [decks EXCEPT ![d].text = text, ![d].name = n,
                                            ![d].crm = [tam |-> "deck"]]
                         ELSE decks
             /\ ups' = [ups EXCEPT ![i].pc = "bg_trigger", ![i].text = text, ![i].name = n,
                                   ![i].extracted = TRUE, ![i].ingested = TRUE]
    /\ UNCHANGED <<analyses, trig, runs, dele, chat, env, svc>>

\* process_deck_background: the analysis is triggered: the status is set to
\* analyzing and analyze_deck runs.
BgTrigger(i) ==
    /\ ups[i].pc = "bg_trigger"
    /\ HasIdle(runs)
    /\ decks' = UpdateDeckStatus(ups[i].returned, "analyzing")
    /\ runs' = QueueRun(ups[i].returned, ups[i].text)
    /\ ups' = [ups EXCEPT ![i].pc = "done"]
    /\ UNCHANGED <<analyses, trig, dele, chat, env, svc>>

(***************************************************************************)
(* SpecAuto: uploads of a PDF with text through the endpoint by one client, *)
(* their background processing and the runs it starts, with no trigger by  *)
(* anyone.  Every task that can take a step eventually takes one.          *)
(***************************************************************************)
InitAuto ==
    /\ decks = [d \in DeckIds |-> NoDeck]
    /\ analyses = [d \in DeckIds |-> NoAnalysis]
    /\ NoTasks
    /\ env = [store |-> StoreAnswers, agent |-> {"text"}, research |-> {"tam"}, consensus |-> "few"]

NextAuto ==
    \/ \E file \in {<<"deck", ".pdf">>, <<"deck", ".txt">>} : UploadRequest(Client, file, 1, "c1")
    \/ \E i \in UpIds : BgProcess(i)
    \/ \E i \in UpIds : BgTrigger(i)
    \/ \E r \in RunIds : RunStep(r)

SpecAuto == InitAuto /\ [][NextAuto]_vars /\ WF_vars(NextAuto)

(***************************************************************************)
(* SpecRequests: requests of one client to the upload endpoint with every  *)
(* kind of file name and size, and triggers by any user, against a store   *)
(* that may fail; the background processing of the accepted uploads goes   *)
(* on, the runs wait.                                                      *)
(***************************************************************************)
InitRequests ==
    /\ decks = [d \in DeckIds |-> NoDeck]
    /\ analyses = [d \in DeckIds |-> NoAnalysis]
    /\ NoTasks
    /\ env = [store |-> StoreAnswers, agent |-> {"text"}, research |-> {"tam"}, consensus |-> "few"]

NextRequests ==
    \/ \E file \in Files, size \in Sizes : UploadRequest(Client, file, size, "c1")
    \/ \E i \in UpIds : BgProcess(i)
    \/ \E i \in UpIds : BgTrigger(i)
    \/ \E d \in DeckIds, u \in Users : TrigRead(d, u)
    \/ \E t \in TrigIds : TrigAccept(t)

SpecRequests == InitRequests /\ [][NextRequests]_vars


(***************************************************************************)
(* assistant_service.chat_with_associate: the tool loop.                   *)
(***************************************************************************)
MaxToolLoops == 5

\* The tools the model asks for here read and write nothing of the deck
\* table: search_web is handled by _execute_tool, fetch_deck_from_url is
\* offered in ALL_TOOLS but has no branch in _execute_tool.
ToolNames == {"search_web", "fetch_deck_from_url"}
Handled == {"search_web"}

\* A tool call of a response: its name, whether its arguments are a JSON
\* document, whether the tool raises when run.
ToolCalls == [name : ToolNames, args : {"json", "not_json"}, raises : BOOLEAN]

CallSeqs(n) == UNION {[1..k -> ToolCalls] : k \in 1..n}

\* The content of a response without tool calls: a text or nothing.
Contents_ == {"answer", ""}

Reply_Error == "Error: <exception>"
Reply_Ready == "I'm ready to help."
Reply_MoreInfo == "I need more information."

ExecuteToolUnguarded(call) ==
    IF call.name \notin Handled THEN "unknown"
    ELSE IF call.raises THEN Uncaught ELSE "result"

\* _execute_tool: the kind of string it returns.  The whole dispatch is in a
\* try: a tool that raises gives "Tool execution failed: ...".
ExecuteTool(call) ==
    IF call.name \notin Handled THEN "unknown"
    ELSE IF call.raises THEN "failed" ELSE "result"

\* messages.append(m), m the assistant message or the tool message of the
\* tool call with this id.
AppendMsg(c, kind, id) ==
    [c EXCEPT !.log[kind] = @ + 1, !.last = kind,
              !.after = IF kind = "assistant" THEN <<>> ELSE Append(@, id)]

\* Line 261: messages[-1] after the loop is a tool message (a dict, without
\* the attribute content) or the assistant message.
AfterLoop(c) ==
    [c EXCEPT !.pc = "done",
              !.reply = IF c.last = "assistant" THEN "answer" ELSE Reply_MoreInfo]

\* Lines 143-229: the request arrives and the message list is built.
ChatAsk(model) ==
    /\ chat.pc = "idle"
    /\ chat' = [IdleChat EXCEPT !.pc = "llm", !.model = model]
    /\ UNCHANGED <<decks, analyses, trig, runs, ups, dele, env, svc>>

\* Lines 231-242, 254-259: one completion.  It raises, or it answers with a
\* content, or it asks for tools; a model that is "always_tool" asks for
\* tools in every response.
ChatLLM ==
    /\ chat.pc = "llm"
    /\ \/ /\ chat.model = "free"
          /\ chat' = [chat EXCEPT !.pc = "done", !.llm_calls = @ + 1, !.reply = Reply_Error]
       \/ /\ chat.model = "free"
          /\ \E content \in Contents_ :
                chat' = [AppendMsg(chat, "assistant", 0) EXCEPT
                            !.pc = "done", !.llm_calls = @ + 1, !.asked = 0,
                            !.reply = IF content = "" THEN Reply_Ready ELSE content]
       \/ \E calls \in CallSeqs(MaxCalls) :
             chat' = [AppendMsg(chat, "assistant", 0) EXCEPT
                         !.pc = "tools", !.llm_calls = @ + 1, !.asked = Len(calls),
                         !.pending = [k \in DOMAIN calls |->
                                         [id |-> k, name |-> calls[k].name,
                                          args |-> calls[k].args, raises |-> calls[k].raises]]]
    /\ UNCHANGED <<decks, analyses, trig, runs, ups, dele, env, svc>>

\* The loop after a tool message: the next tool call, the next completion,
\* or the end of the fifth iteration.
Continue(c) ==
    IF c.pending # <<>> THEN c
    ELSE IF c.llm_calls < MaxToolLoops THEN [c EXCEPT !.pc = "llm"]
    ELSE AfterLoop(c)

ChatToolSkipUnknown ==
    /\ chat.pc = "tools"
    /\ LET call == Head(chat.pending)
           result == ExecuteTool(call)
           rest == [chat EXCEPT !.pending = Tail(@)]
       IN  chat' = IF call.args = "not_json" \/ result = Uncaught
                   THEN [chat EXCEPT !.pc = "done", !.reply = Reply_Error]
                   ELSE IF result = "unknown" THEN Continue(rest)
                   ELSE Continue(AppendMsg(rest, result, call.id))
    /\ UNCHANGED <<decks, analyses, trig, runs, ups, dele, env, svc>>

\* Lines 245-253, 257-259: the next tool call of the response.  json.loads of
\* its arguments is in the loop's try, outside _execute_tool: if it raises,
\* the function returns the error reply.
ChatTool ==
    /\ chat.pc = "tools"
    /\ LET call == Head(chat.pending)
           result == ExecuteTool(call)
       IN  chat' = IF call.args = "not_json" \/ result = Uncaught
                   THEN [chat EXCEPT !.pc = "done", !.reply = Reply_Error]
                   ELSE Continue(AppendMsg([chat EXCEPT !.pending = Tail(@)], result, call.id))
    /\ UNCHANGED <<decks, analyses, trig, runs, ups, dele, env, svc>>

InitChat ==
    /\ decks = [d \in DeckIds |-> NoDeck]
    /\ analyses = [d \in DeckIds |-> NoAnalysis]
    /\ NoTasks
    /\ env = [store |-> {"ok"}, agent |-> {"text"}, research |-> {"tam"}, consensus |-> "few"]

NextChat ==
    \/ \E model \in {"free", "always_tool"} : ChatAsk(model)
    \/ ChatLLM
    \/ ChatTool

SpecChat == InitChat /\ [][NextChat]_vars


(***************************************************************************)
(* rag_service.search_related_chunks and keyword_search_fallback.          *)
(* Texts are sequences of characters.                                      *)
(***************************************************************************)
Chars == {"a", "%", "\\"}
Strings(n) == UNION {[1..k -> Chars] : k \in 0..n}

\* The largest limit the callers pass (assistant_service 190, 201;
\* pipeline 76).
SearchLimit == 5

\* s contains q as a literal substring.
Contains(s, q) == \E i \in 1..(Len(s) - Len(q) + 1) : SubSeq(s, i, i + Len(q) - 1) = q

\* PostgreSQL's s ILIKE p over these characters: % matches any run of
\* characters, a backslash makes the character after it literal.
RECURSIVE Like(_, _)
Like(s, p) ==
    IF p = <<>> THEN s = <<>>
    ELSE IF Head(p) = "%" THEN Like(s, Tail(p)) \/ (s # <<>> /\ Like(Tail(s), p))
    ELSE IF Head(p) = "\\" /\ Len(p) > 1
         THEN s # <<>> /\ Head(s) = p[2] /\ Like(Tail(s), Tail(Tail(p)))
    ELSE s # <<>> /\ Head(s) = Head(p) /\ Like(Tail(s), Tail(p))

\* f"%{query}%"
KeywordPattern(query) == <<"%">> \o query \o <<"%">>

\* deck_ids: None, or a list of deck ids.
DeckFilters == {[given |-> FALSE, ids |-> {}]} \cup {[given |-> TRUE, ids |-> I] : I \in SUBSET DeckIds}

\* Line 138: "if deck_ids:" is false for None and for the empty list.
Filtered(rows, deck_ids) ==
    IF deck_ids.given /\ deck_ids.ids # {} THEN {r \in rows : r.deck \in deck_ids.ids} ELSE rows

\* The results a query with LIMIT n may give out of the matching rows.
Limited(rows, n) ==
    {R \in SUBSET rows : Cardinality(R) = IF Cardinality(rows) < n THEN Cardinality(rows) ELSE n}

\* keyword_search_fallback: the ILIKE query; [] when the store raises.
KeywordSearchFallback(rows, query, deck_ids, limit, st) ==
    IF st = "raise" THEN {{}}
    ELSE Limited({r \in Filtered(rows, deck_ids) : Like(r.content, KeywordPattern(query))},
                 limit)

\* match_deck_chunks: the rows over the similarity threshold, inside the
\* filter, at most match_count of them.
VectorHits(rows, deck_ids, limit) ==
    UNION {Limited(R, limit) :
             R \in SUBSET {r \in rows : ~deck_ids.given \/ r.deck \in deck_ids.ids}}

MergeAll(chunks, keyword_results) == chunks \o keyword_results

\* Lines 103-106: the keyword results whose id is not among the vector
\* results are appended to them.
MergeResults(chunks, keyword_results) ==
    LET existing_ids == {chunks[k].id : k \in DOMAIN chunks}
        fresh(kr) == kr.id \notin existing_ids
    IN  chunks \o SelectSeq(keyword_results, fresh)

\* search_related_chunks.  emb: whether the query embedding could be computed;
\* an exception of the vector search (rpc_raised) leaves through the outer
\* except.  A
\* query gives its rows in some order; fallback: whether the keyword query
\* was issued.  Line 118: the first limit entries are returned.
SearchRelatedChunks ==
    /\ svc.fn = "search"
    /\ svc.pc = "called"
    /\ LET Orders(R) == {f \in [1..Cardinality(R) -> R] :
                            \A i, j \in DOMAIN f : f[i] = f[j] => i = j}
       IN
       \E emb \in BOOLEAN, rpc \in StoreAnswers, kw \in StoreAnswers :
         \E hits \in IF emb /\ rpc = "ok"
                      THEN VectorHits(svc.table, svc.deck_ids, svc.limit) ELSE {{}} :
           \E found \in IF Cardinality(hits) < 2
                        THEN KeywordSearchFallback(svc.table, svc.query, svc.deck_ids,
                                                   svc.limit, kw)
                        ELSE {{}} :
             \E chunks \in Orders(hits), keyword_results \in Orders(found) :
              LET merged == MergeResults(chunks, keyword_results)
              IN
              svc' = [svc EXCEPT
                        !.pc = "done",
                        !.embedded = emb,
                        !.raised = (emb /\ rpc = "raise") \/ (Cardinality(hits) < 2 /\ kw = "raise"),
                        !.rpc_raised = emb /\ rpc = "raise",
                        !.hits = hits,
                        !.fallback = ~(emb /\ rpc = "raise") /\ Cardinality(hits) < 2,
                        !.result = IF emb /\ rpc = "raise" THEN <<>>
                                   ELSE IF Len(merged) <= svc.limit THEN merged
                                   ELSE SubSeq(merged, 1, svc.limit)]
    /\ UNCHANGED <<decks, analyses, trig, runs, ups, dele, chat, env>>

\* deck_chunks holds one chunk of each deck; a query arrives.
InitSearch ==
    /\ decks = [d \in DeckIds |-> NoDeck]
    /\ analyses = [d \in DeckIds |-> NoAnalysis]
    /\ trig = [t \in TrigIds |-> IdleTrig]
    /\ runs = [r \in RunIds |-> IdleRun]
    /\ ups = [i \in UpIds |-> IdleUp]
    /\ dele = IdleDel
    /\ chat = IdleChat
    /\ env = [store |-> StoreAnswers, agent |-> {"text"}, research |-> {"tam"}, consensus |-> "few"]
    /\ \E content \in [DeckIds -> Strings(MaxLen) \ {<<>>}], query \in Strings(MaxLen),
          deck_ids \in DeckFilters, limit \in {1, SearchLimit} :
          svc = [fn |-> "search", pc |-> "called", query |-> query, deck_ids |-> deck_ids,
                 limit |-> limit,
                 table |-> {[id |-> d, deck |-> d, content |-> content[d]] : d \in DeckIds},
                 embedded |-> FALSE, raised |-> FALSE, rpc_raised |-> FALSE,
                 fallback |-> FALSE, hits |-> {}, result |-> <<>>]

NextSearch == SearchRelatedChunks

SpecSearch == InitSearch /\ [][NextSearch]_vars

(***************************************************************************)
(* SpecRace: upload_deck and upload_deck_from_text calls of one client     *)
(* that overlap.  A call is suspended only at its awaits (the thesis and   *)
(* the metadata extraction, lines 196-199 and 411-414, and the ingestion): *)
(* upload_deck runs alone from its name lookup to its write, and           *)
(* upload_deck_from_text from its fingerprint lookup to its write.  The    *)
(* store does not fail.                                                    *)
(***************************************************************************)
InitRace ==
    /\ decks = [d \in DeckIds |-> NoDeck]
    /\ analyses = [d \in DeckIds |-> NoAnalysis]
    /\ NoTasks
    /\ env = [store |-> {"ok"}, agent |-> {"text"}, research |-> {"tam"}, consensus |-> "few"]

NextRace ==
    LET Alone(j) == ups[j].pc = "write" \/ (ups[j].kind = "text" /\ ups[j].pc = "name") IN
    \/ /\ \A j \in UpIds : ~Alone(j)
       /\ \E c \in Contents : UploadPdfLookup(Client, c)
    \/ /\ \A j \in UpIds : ~Alone(j)
       /\ \E c \in Contents : UploadTextExtract(Client, c, FALSE)
    \/ \E i \in UpIds :
          /\ \A j \in UpIds \ {i} : ~Alone(j)
          /\ UploadStep(i)

SpecRace == InitRace /\ [][NextRace]_vars


(***************************************************************************)
(* SpecRerun: the owner triggers the analysis of a document, waits for the *)
(* run to end and triggers it again; the research of a run works or fails, *)
(* the Consensus agent names no TAM, the store does not fail.              *)
(***************************************************************************)
InitRerun ==
    /\ decks = [d \in DeckIds |-> IF d = 1 THEN UploadedDeck("u1", "acme", "c1", "deck") ELSE NoDeck]
    /\ analyses = [d \in DeckIds |-> NoAnalysis]
    /\ NoTasks
    /\ env = [store |-> {"ok"}, agent |-> {"text"}, research |-> {"raise", "tam"},
              consensus |-> "no_tam"]

NextRerun ==
    \/ /\ \A r \in RunIds : runs[r].pc \in {"idle", "done"}
       /\ \A t \in TrigIds : trig[t].pc \in {"idle", "done"}
       /\ \E d \in DeckIds : TrigRead(d, "u1")
    \/ \E t \in TrigIds : TrigAccept(t)
    \/ \E r \in RunIds : RunStep(r)

SpecRerun == InitRerun /\ [][NextRerun]_vars


(***************************************************************************)
(* GET /api/council/{deck_id}.                                             *)
(***************************************************************************)
\* The status in the response of the get_analysis endpoint for document d
\* asked by user u, "404" when get_deck finds no such document of u.
\* CouncilService.get_analysis gives None when the store raises (st), a
\* dict with status "pending_council" when there is no analysis row, and
\* the row otherwise; the rows _save_analysis writes have no key status.
GetAnalysisStatus(d, u, st) ==
    LET deck == GetDeck(d, u)
    IN  IF ~deck.ex THEN "404"
        ELSE IF st = "raise" THEN deck.status
        ELSE IF ~analyses[d].ex THEN "pending_council"
        ELSE "analyzed"

(***************************************************************************)
(* ChatService: the conversations and messages tables.  In SpecConv chat   *)
(* holds them: convs[c] is the row of conversation c ("free": not yet      *)
(* created, "gone": deleted), msgs[c] its messages in created_at order,    *)
(* ever[c] every message ever inserted for it, del the delete_conversation *)
(* call in progress.                                                       *)
(***************************************************************************)
\* create_conversation, lines 37-41.
CreateConversation(u) ==
    /\ \E c \in 1..MaxConvs : chat.convs[c].state = "free"
    /\ LET c == CHOOSE i \in 1..MaxConvs :
                   chat.convs[i].state = "free" /\ \A j \in 1..(i - 1) : chat.convs[j].state # "free"
       IN  \E st \in env.store :
             chat' = IF st = "ok" THEN [chat EXCEPT !.convs[c] = [state |-> "live", user |-> u]]
                     ELSE chat
    /\ UNCHANGED <<decks, analyses, trig, runs, ups, dele, env, svc>>

\* add_message, lines 51-62, as the chat endpoint calls it for the request's
\* conversation: insert the message; an exception is logged.
AddMessage(c, role) ==
    /\ chat.convs[c].state = "live"
    /\ Len(chat.ever[c]) < MaxMsgs
    /\ \E st \in env.store :
         chat' = IF st = "ok"
                 THEN [chat EXCEPT !.msgs[c] = Append(@, role), !.ever[c] = Append(@, role)]
                 ELSE chat
    /\ UNCHANGED <<decks, analyses, trig, runs, ups, dele, env, svc>>

\* delete_conversation, line 75: the messages of conversation_id go first,
\* whoever owns the conversation.
DeleteMessages(c, u) ==
    /\ chat.del.pc = "idle"
    /\ chat.convs[c].state = "live"
    /\ \E st \in env.store :
         chat' = IF st = "ok"
                 THEN [chat EXCEPT !.msgs[c] = <<>>, !.del = [pc |-> "conv", conv |-> c, user |-> u]]
                 ELSE chat
    /\ UNCHANGED <<decks, analyses, trig, runs, ups, dele, env, svc>>

\* delete_conversation, line 77: DELETE ... WHERE id = conversation_id AND
\* user_id = user_id.
DeleteConversation ==
    /\ chat.del.pc = "conv"
    /\ \E st \in env.store :
         chat' = [chat EXCEPT
                    !.del = [pc |-> "idle", conv |-> 0, user |-> ""],
                    !.convs[chat.del.conv] =
                        IF st = "ok" /\ @.user = chat.del.user THEN [state |-> "gone", user |-> ""]
                        ELSE @]
    /\ UNCHANGED <<decks, analyses, trig, runs, ups, dele, env, svc>>

InitConv ==
    /\ decks = [d \in DeckIds |-> NoDeck]
    /\ analyses = [d \in DeckIds |-> NoAnalysis]
    /\ trig = [t \in TrigIds |-> IdleTrig]
    /\ runs = [r \in RunIds |-> IdleRun]
    /\ ups = [i \in UpIds |-> IdleUp]
    /\ dele = IdleDel
    /\ svc = NoCall
    /\ env = [store |-> {"ok"}, agent |-> {"text"}, research |-> {"tam"}, consensus |-> "few"]
    /\ chat = [convs |-> [c \in 1..MaxConvs |-> [state |-> "free", user |-> ""]],
               msgs |-> [c \in 1..MaxConvs |-> <<>>],
               ever |-> [c \in 1..MaxConvs |-> <<>>],
               del |-> [pc |-> "idle", conv |-> 0, user |-> ""]]

NextConv ==
    \/ \E u \in Users : CreateConversation(u)
    \/ \E c \in 1..MaxConvs, role \in {"user", "assistant"} : AddMessage(c, role)
    \/ \E c \in 1..MaxConvs, u \in Users : DeleteMessages(c, u)
    \/ DeleteConversation

SpecConv == InitConv /\ [][NextConv]_vars


(***************************************************************************)
(* PDFService.list_decks: the enrichment of one listed row.  smart is the  *)
(* row's crm_data, analysis the crm_data of its stored consensus ({} when  *)
(* there is none), over the field tam and one other field.  A value is     *)
(* "absent" (no key), "null" (None), "empty" (""), "zero" (0, a value that *)
(* is neither None nor "" but false in a test) or a non-empty value named  *)
(* after the map it comes from.                                            *)
(***************************************************************************)
\* Variant: final_crm = {**smart_data, **analysis_data}.
ListEnrichOverwrite(smart, analysis) ==
    [k \in {"tam", "stage"} |-> IF analysis[k] # "absent" THEN analysis[k] ELSE smart[k]]

\* Lines 347-354: final_crm.
ListEnrich(smart, analysis) ==
    LET final_crm == [k \in {"tam", "stage"} |->
                        IF analysis[k] \notin {"absent", "null", "empty"} THEN analysis[k]
                        ELSE smart[k]]
        Truthy(v) == v \notin {"absent", "null", "empty", "zero"}
    IN  [final_crm EXCEPT !.tam = IF Truthy(smart.tam) /\ ~Truthy(analysis.tam) THEN smart.tam
                                  ELSE @]

ListDecks ==
    /\ svc.fn = "list_decks" /\ svc.pc = "called"
    /\ svc' = [svc EXCEPT !.pc = "done", !.final_crm = ListEnrich(svc.smart_data, svc.analysis_data)]
    /\ UNCHANGED <<decks, analyses, trig, runs, ups, dele, chat, env>>

\* A row with any extraction map and any consensus map is listed.
InitList ==
    /\ decks = [d \in DeckIds |-> NoDeck]
    /\ analyses = [d \in DeckIds |-> NoAnalysis]
    /\ trig = [t \in TrigIds |-> IdleTrig]
    /\ runs = [r \in RunIds |-> IdleRun]
    /\ ups = [i \in UpIds |-> IdleUp]
    /\ dele = IdleDel
    /\ chat = IdleChat
    /\ env = [store |-> {"ok"}, agent |-> {"text"}, research |-> {"tam"}, consensus |-> "few"]
    /\ \E smart \in [{"tam", "stage"} -> {"absent", "null", "empty", "zero", "deck"}],
          analysis \in [{"tam", "stage"} -> {"absent", "null", "empty", "zero", "consensus"}] :
          svc = [fn |-> "list_decks", pc |-> "called", smart_data |-> smart,
                 analysis_data |-> analysis, final_crm |-> smart]

SpecList == InitList /\ [][ListDecks]_vars


(***************************************************************************)
(* Web search: ResearchService._search_market and _search_competitors, and *)
(* perform_web_search of the assistant.  All three sit under tenacity's    *)
(* retry(stop_after_attempt(3), retry_if_exception_type(Exception)); the   *)
(* wrapper calls the function again only when an exception leaves it.      *)
(*                                                                         *)
(* svc holds the one search in progress: the queries are 1..n, q is the    *)
(* query being searched, mode the kind of DuckDuckGo search, attempt the   *)
(* wrapper's count of calls of the wrapped function, results the queries   *)
(* that brought results (in order), failed whether a web call of the       *)
(* current attempt has raised, and out what the caller receives.           *)
(***************************************************************************)
StopAfterAttempt == 3
QueryCap == 4
WebAnswers == {"hits", "none", "raise"}
Searches == {"_search_market", "_search_competitors"}
NoResults == <<"No results found for this query.">>
RetryError == <<"RetryError">>

\* The queries the function goes through: queries[:4] for the market, all of
\* them for the competitors, the one query for perform_web_search.
Queries(fn, n) ==
    IF fn = "_search_market" THEN IF n > QueryCap THEN QueryCap ELSE n
    ELSE IF fn = "_search_competitors" THEN n
    ELSE 1

WebBegin(fn, n) ==
    /\ svc.pc = "idle"
    /\ svc' = [fn |-> fn, pc |-> "call", n |-> Queries(fn, n), q |-> 1, mode |-> "text",
               attempt |-> 1, results |-> <<>>, failed |-> FALSE, raised |-> 0,
               out |-> <<>>]
    /\ UNCHANGED <<decks, analyses, trig, runs, ups, dele, chat, env>>

\* After the query q of the loop: the next query, or the end of the loop.
NextQuery(c) ==
    IF c.q = c.n THEN [c EXCEPT !.pc = "return"]
    ELSE [c EXCEPT !.q = c.q + 1, !.mode = "text"]

\* One ddgs.text or ddgs.news call inside the with DDGS() block of a research
\* search.  An exception is caught by the function's own except, which logs
\* it and goes on to the return.
ResearchWebCall ==
    /\ svc.pc = "call" /\ svc.fn \in Searches
    /\ \E a \in WebAnswers :
         svc' = CASE a = "hits" -> NextQuery([svc EXCEPT !.results = Append(svc.results, svc.q)])
                  [] a = "none" -> IF svc.mode = "text" THEN [svc EXCEPT !.mode = "news"]
                                   ELSE NextQuery(svc)
                  [] a = "raise" -> [svc EXCEPT !.pc = "return", !.failed = TRUE,
                                                !.raised = svc.raised + 1]
    /\ UNCHANGED <<decks, analyses, trig, runs, ups, dele, chat, env>>

\* _ddg_search_execution called by perform_web_search: an exception leaves
\* the function and reaches the retry wrapper; no results in text mode lead
\* to the news fallback.
DdgSearchExecution ==
    /\ svc.pc = "call" /\ svc.fn = "perform_web_search"
    /\ \E a \in WebAnswers :
         svc' = CASE a = "hits" -> [svc EXCEPT !.results = <<svc.q>>, !.pc = "return"]
                  [] a = "none" -> IF svc.mode = "text"
                                   THEN [svc EXCEPT !.mode = "news", !.attempt = 1, !.failed = FALSE]
                                   ELSE [svc EXCEPT !.pc = "return"]
                  [] a = "raise" -> [svc EXCEPT !.pc = "raised", !.failed = TRUE,
                                                !.raised = svc.raised + 1]
    /\ UNCHANGED <<decks, analyses, trig, runs, ups, dele, chat, env>>

\* The retry wrapper after an exception left the wrapped function: it waits
\* and calls the function again from its first line.
Retry ==
    /\ svc.pc = "raised" /\ svc.attempt < StopAfterAttempt
    /\ svc' = [svc EXCEPT !.pc = "call", !.attempt = svc.attempt + 1, !.q = 1,
                          !.results = <<>>, !.failed = FALSE,
                          !.mode = IF svc.fn \in Searches THEN "text" ELSE svc.mode]
    /\ UNCHANGED <<decks, analyses, trig, runs, ups, dele, chat, env>>

\* The wrapper after the last attempt raised.  With reraise=True the
\* exception goes to perform_web_search, which logs it and falls back to the
\* news search or to no results; with reraise=False the caller of the
\* research search gets tenacity's RetryError.
GiveUp ==
    /\ svc.pc = "raised" /\ svc.attempt = StopAfterAttempt
    /\ svc' = IF svc.fn \in Searches THEN [svc EXCEPT !.pc = "done", !.out = RetryError]
              ELSE IF svc.mode = "text" THEN [svc EXCEPT !.pc = "call", !.mode = "news", !.attempt = 1]
              ELSE [svc EXCEPT !.pc = "return"]
    /\ UNCHANGED <<decks, analyses, trig, runs, ups, dele, chat, env>>

\* The return statement: the joined results of the research search, the
\* formatted results or the no-results sentence of perform_web_search.
WebReturn ==
    /\ svc.pc = "return"
    /\ svc' = [svc EXCEPT !.pc = "done",
                          !.out = IF svc.fn \notin Searches /\ svc.results = <<>> THEN NoResults
                                  ELSE svc.results]
    /\ UNCHANGED <<decks, analyses, trig, runs, ups, dele, chat, env>>

InitWeb ==
    /\ decks = [d \in DeckIds |-> NoDeck]
    /\ analyses = [d \in DeckIds |-> NoAnalysis]
    /\ NoTasks
    /\ env = [store |-> {"ok"}, agent |-> {"text"}, research |-> {"tam"}, consensus |-> "few"]

NextWeb ==
    \/ \E fn \in Searches \cup {"perform_web_search"}, n \in 1..MaxQueries : WebBegin(fn, n)
    \/ ResearchWebCall
    \/ DdgSearchExecution
    \/ Retry
    \/ GiveUp
    \/ WebReturn

SpecWeb == InitWeb /\ [][NextWeb]_vars


(***************************************************************************)
(* RAGService._chunk_text and PDFService.chunk_text.  A text is its length *)
(* and the positions (from 0) of its periods and of its newlines; every    *)
(* other character is a letter.  A chunk is the window text[start:end],    *)
(* end as the loop computes it, and, as [from, to), what strip() leaves of *)
(* the characters of the window.                                           *)
(***************************************************************************)
ChunkSize == 1000
Overlap == 200

ChunkEndAnyBreak(fn, text, start) ==
    LET breaks == {p \in text.dots \cup (IF fn = "chunk_text" THEN text.nls ELSE {}) :
                      start <= p /\ p < start + ChunkSize}
        break_point == IF breaks = {} THEN -1
                       ELSE (CHOOSE p \in breaks : \A q \in breaks : q <= p) - start
    IN  IF start + ChunkSize < text.len /\ break_point >= 0
        THEN start + break_point + 1
        ELSE start + ChunkSize

\* The end of the window that starts at start.  rfind looks for '.' in
\* _chunk_text, for '.' and for a newline in chunk_text; the window is cut
\* after the last of them if that lies past the middle of the window and
\* the window does not reach the end of the text.
ChunkEnd(fn, text, start) ==
    LET breaks == {p \in text.dots \cup (IF fn = "chunk_text" THEN text.nls ELSE {}) :
                      start <= p /\ p < start + ChunkSize}
        break_point == IF breaks = {} THEN -1
                       ELSE (CHOOSE p \in breaks : \A q \in breaks : q <= p) - start
    IN  IF start + ChunkSize < text.len /\ break_point > ChunkSize \div 2
        THEN start + break_point + 1
        ELSE start + ChunkSize

\* The while loop: one iteration appends text[start:end].strip() and moves
\* start to end - overlap; after the loop the empty chunks are dropped.
ChunkText ==
    /\ svc.fn \in {"_chunk_text", "chunk_text"}
    /\ svc.pc = "loop"
    /\ \/ /\ svc.start < svc.text.len
          /\ LET end == ChunkEnd(svc.fn, svc.text, svc.start)
                 to == IF end < svc.text.len THEN end ELSE svc.text.len
                 lead == {p \in {svc.start} \cup {n + 1 : n \in svc.text.nls} :
                            /\ svc.start <= p /\ p <= to
                            /\ p \notin svc.text.nls \/ p = to
                            /\ \A q \in svc.start..(p - 1) : q \in svc.text.nls}
                 from == CHOOSE p \in lead : TRUE
                 trail == {p \in {to} \cup svc.text.nls :
                             /\ from <= p /\ p <= to
                             /\ p = from \/ (p - 1) \notin svc.text.nls
                             /\ \A q \in p..(to - 1) : q \in svc.text.nls}
                 chunk == [start |-> svc.start, end |-> end,
                           from |-> from, to |-> CHOOSE p \in trail : TRUE]
             IN  svc' = [svc EXCEPT !.chunks = Append(@, chunk), !.start = end - Overlap]
       \/ /\ svc.start >= svc.text.len
          /\ LET kept(c) == c.from < c.to
             IN  svc' = [svc EXCEPT !.pc = "done", !.result = SelectSeq(svc.chunks, kept)]
    /\ UNCHANGED <<decks, analyses, trig, runs, ups, dele, chat, env>>

\* A text of up to MaxText characters with a period, a newline or a letter
\* at each of a few positions around the middle and the end of the windows.
InitChunk ==
    /\ decks = [d \in DeckIds |-> NoDeck]
    /\ analyses = [d \in DeckIds |-> NoAnalysis]
    /\ trig = [t \in TrigIds |-> IdleTrig]
    /\ runs = [r \in RunIds |-> IdleRun]
    /\ ups = [i \in UpIds |-> IdleUp]
    /\ dele = IdleDel
    /\ chat = IdleChat
    /\ env = [store |-> {"ok"}, agent |-> {"text"}, research |-> {"tam"}, consensus |-> "few"]
    /\ \E fn \in {"_chunk_text", "chunk_text"},
          len \in {0, 1, 900, ChunkSize, ChunkSize + 1, 1700, MaxText},
          mark \in [{0, 500, 501, 700, 999, 1300, 1500, 1799} -> {"letter", "dot", "nl"}] :
          svc = [fn |-> fn, pc |-> "loop", start |-> 0, chunks |-> <<>>, result |-> <<>>,
                 text |-> [len |-> len,
                           dots |-> {p \in DOMAIN mark : p < len /\ mark[p] = "dot"},
                           nls |-> {p \in DOMAIN mark : p < len /\ mark[p] = "nl"}]]

SpecChunk == InitChunk /\ [][ChunkText]_vars


(***************************************************************************)
(* Claims about trigger_analysis and analyze_deck.                         *)
(***************************************************************************)
\* Two requests whose read-then-write sections overlapped.
Overlapping(t1, t2) == t1 \in trig[t2].overlaps \/ t2 \in trig[t1].overlaps

\* C1: of two trigger_analysis requests for the same deck (both by its owner)
\* that are processed interleaved, exactly one queues an analysis run and the
\* other answers "already in progress" and queues nothing.
C1_OneTriggerQueues ==
    \A t1, t2 \in TrigIds :
        (/\ t1 # t2
         /\ trig[t1].pc = "done" /\ trig[t2].pc = "done"
         /\ trig[t1].deck = trig[t2].deck
         /\ trig[t1].outcome # "not_found" /\ trig[t2].outcome # "not_found"
         /\ Overlapping(t1, t2))
        => \E a, b \in {t1, t2} :
              /\ a # b
              /\ trig[a].outcome = "started"
              /\ trig[b].outcome = "in_progress" /\ trig[b].run = 0

\* Nothing is in flight for deck d: no run is queued or running and no
\* trigger request stands between its read and its write.
Quiet(d) ==
    /\ \A r \in RunIds : runs[r].deck = d => runs[r].pc \in {"idle", "done"}
    /\ \A t \in TrigIds : trig[t].deck = d => trig[t].pc \in {"idle", "done"}

\* C2: no analysis run ends while leaving its deck in status analyzing: once
\* the runs for a deck have ended, the deck is analyzed or failed (or archived
\* by the user), never analyzing.
C2_NoRunLeavesAnalyzing ==
    \A d \in DeckIds :
        (/\ decks[d].ex
         /\ Quiet(d)
         /\ \E r \in RunIds : runs[r].pc = "done" /\ runs[r].deck = d)
        => decks[d].status # "analyzing"

\* The analysis record and the deck of a run that has saved both, untouched.
SavedBy(r) ==
    /\ runs[r].pc = "done"
    /\ runs[r].end = "saved"
    /\ decks[runs[r].deck].ex
    /\ analyses[runs[r].deck].ex

C4_RecommendationFromScore ==
    \A d \in DeckIds :
        (analyses[d].ex /\ analyses[d].consensus.final_score.k = "num")
        => LET fs == analyses[d].consensus.final_score.v
               rec == analyses[d].consensus.recommendation
           IN  /\ fs < 60 * ScoreUnit => rec = "Pass"
               /\ (60 * ScoreUnit <= fs /\ fs < 80 * ScoreUnit) => rec = "Consider"
               /\ fs >= 80 * ScoreUnit => rec = "Invest"

\* The model scored 6 on the ten-point scale and recommended Invest; the
\* record says 60 and Consider.
C4_Witness ==
    \E r \in RunIds :
        /\ SavedBy(r)
        /\ runs[r].raw = Num(6 * ScoreUnit)
        /\ analyses[runs[r].deck].consensus.final_score = Num(60 * ScoreUnit)
        /\ analyses[runs[r].deck].consensus.recommendation = "Consider"

\* The run ended on something other than an analyst's exception: a storage
\* call that raised, or a consensus object whose crm_data is null.
OtherFault(r) ==
    runs[r].null_crm \/ runs[r].end \in {"save_failed", "status_failed", "except_failed"}

\* C5: when exactly one analyst call raises, the other two outputs are kept,
\* the Consensus step runs with the placeholder for the failed analyst, and
\* the deck reaches analyzed.
C5_OneAnalystFails ==
    \A r \in RunIds :
        (runs[r].pc = "done" /\ Cardinality(runs[r].raised) = 1 /\ ~OtherFault(r))
        => LET d == runs[r].deck
               rec == [Optimist |-> analyses[d].optimist, Skeptic |-> analyses[d].skeptic,
                       Quant |-> analyses[d].quant]
           IN  /\ decks[d].status = "analyzed"
               /\ analyses[d].ex
               /\ \A a \in Analysts :
                     /\ runs[r].debate[a] = rec[a]
                     /\ (a \in runs[r].raised) <=> (rec[a] = ErrorPlaceholder)
                     /\ (a \notin runs[r].raised) => rec[a] \in {"analysis", EmptyPlaceholder}

C5_Witness ==
    \E r \in RunIds :
        /\ runs[r].pc = "done"
        /\ runs[r].raised = {"Skeptic"}
        /\ decks[runs[r].deck].status = "analyzed"
        /\ analyses[runs[r].deck].skeptic = ErrorPlaceholder
        /\ analyses[runs[r].deck].optimist = "analysis"
        /\ analyses[runs[r].deck].quant = "analysis"

\* C6: the Consensus agent is invoked only after all three analysts have
\* completed, and it is given their three outputs.
C6_ConsensusAfterAnalysts ==
    \A r \in RunIds :
        /\ runs[r].pc \in {"queued", "research", "agents"} => runs[r].debate = NoOut
        /\ runs[r].pc = "consensus" =>
              /\ \A a \in Analysts :
                    runs[r].out[a] \in {"analysis", EmptyPlaceholder, ErrorPlaceholder}
              /\ runs[r].debate = runs[r].out

C6_Witness ==
    \E r \in RunIds :
        /\ runs[r].pc = "consensus"
        /\ runs[r].debate = [Optimist |-> "analysis", Skeptic |-> ErrorPlaceholder,
                             Quant |-> EmptyPlaceholder]

(***************************************************************************)
(* Claims about uploads.                                                   *)
(***************************************************************************)
\* C7: an upload whose content is already stored for the same owner creates
\* no document, changes no field of the stored one, runs neither extraction
\* nor ingestion, and returns the identity of the stored document.
C7_ReuploadIsNoOp ==
    \A i \in UpIds :
        (ups[i].pc = "done" /\ ups[i].dup # 0) =>
            /\ ups[i].returned = ups[i].dup
            /\ ups[i].wrote = ""
            /\ ~ups[i].extracted
            /\ ~ups[i].ingested

\* C8: whatever uploads, archives, triggers and deletes have been served,
\* an owner has at most one document of a given name that is not archived.
C8_OneLiveDeckPerName ==
    \A d1, d2 \in DeckIds :
        (/\ d1 # d2
         /\ decks[d1].ex /\ decks[d2].ex
         /\ decks[d1].user = decks[d2].user
         /\ decks[d1].name = decks[d2].name)
        => (decks[d1].status = "archived" \/ decks[d2].status = "archived")

(***************************************************************************)
(* Claims about the tool loop.                                             *)
(***************************************************************************)
\* C9: with a model that asks for a tool in every response, the function
\* returns after exactly five completions, and returns a non-empty string.
C9_FiveCallsThenReply ==
    (chat.pc = "done" /\ chat.model = "always_tool") =>
        /\ chat.llm_calls = MaxToolLoops
        /\ chat.reply # ""

\* A tool call that reaches its tool, and the tool raises.
ToolRaises ==
    /\ chat.pc = "tools"
    /\ Head(chat.pending).args = "json"
    /\ Head(chat.pending).name \in Handled
    /\ Head(chat.pending).raises

\* C10: when a tool raises, a tool message carrying the error string is
\* appended and the loop goes on: to the next tool call, to the next
\* completion, or past its fifth and last iteration; the function does not
\* return the error reply.
C10_ToolFailureContinues ==
    [][(ToolRaises /\ chat' # chat) =>
          /\ chat'.log = [chat.log EXCEPT !["failed"] = @ + 1]
          /\ chat'.last = "failed"
          /\ chat'.pending = Tail(chat.pending)
          /\ chat'.pc = IF chat'.pending # <<>> THEN "tools"
                        ELSE IF chat.llm_calls < MaxToolLoops THEN "llm" ELSE "done"
          /\ chat'.pc = "done" => chat'.reply = Reply_MoreInfo]_vars

C10_Witness ==
    /\ chat.pc = "tools"
    /\ chat.log["failed"] >= 1
    /\ chat.llm_calls >= 2

(***************************************************************************)
(* Claims about retrieval.                                                 *)
(***************************************************************************)
\* C11: when the vector search gives no hit (the query embedding failing
\* included), no store call raises, and a stored chunk inside the deck
\* filter contains the query as a literal substring, the result of
\* search_related_chunks includes a chunk that contains the query.
C11_FallbackFindsSubstring ==
    (/\ svc.fn = "search" /\ svc.pc = "done"
     /\ svc.hits = {} /\ ~svc.raised
     /\ \E r \in svc.table :
           /\ ~svc.deck_ids.given \/ r.deck \in svc.deck_ids.ids
           /\ Contains(r.content, svc.query))
    => \E k \in DOMAIN svc.result : Contains(svc.result[k].content, svc.query)

(***************************************************************************)
(* Claims about the runs of a document.                                    *)
(***************************************************************************)
\* The task of slot r has started analyze_deck and has not returned.
Running(r) == runs[r].pc \notin {"idle", "queued", "done"}

\* C12: at most one analyze_deck run is in progress for a document at any
\* time, whichever entry points started the runs.
C12_OneRunPerDeck ==
    \A r1, r2 \in RunIds :
        (r1 # r2 /\ Running(r1) /\ Running(r2)) => runs[r1].deck # runs[r2].deck

\* C13: a run started for a document without text sets the document's status
\* to failed and makes no research, analyst or consensus call.
C13_NoTextFails ==
    [][\A r \in RunIds :
          (runs[r].pc = "queued" /\ runs[r].text = "" /\ runs'[r] # runs[r]) =>
              /\ runs'[r].pc = "done"
              /\ runs'[r].debate = NoOut
              /\ decks'[runs[r].deck].status = "failed"]_vars

\* C14: when the write of the analysis record, or the status and score
\* update after it, fails during a run, the document's status ends as failed.
C14_SaveFailureFails ==
    \A r \in RunIds :
        (runs[r].pc = "done" /\ runs[r].end \in {"save_failed", "status_failed"})
        => decks[runs[r].deck].status = "failed"

\* C15: whenever a document's status is analyzed (and no delete of it is
\* half done), a consensus record exists for it and the document's
\* match_score is that record's final_score (0 if the record has none).
C15_AnalyzedHasRecord ==
    \A d \in DeckIds :
        (decks[d].ex /\ decks[d].status = "analyzed" /\ ~(dele.pc # "idle" /\ dele.deck = d))
        => /\ analyses[d].ex
           /\ decks[d].score = MatchScore(analyses[d].consensus)

\* C16: a document whose status is archived stays archived for as long as it
\* exists: no step of a trigger or of a run changes its status.
C16_ArchivedStays ==
    [][\A d \in DeckIds :
          (decks[d].ex /\ decks[d].status = "archived" /\ decks'[d].ex)
          => decks'[d].status = "archived"]_vars

C18_UploadLeadsToVerdict ==
    \A i \in UpIds, d \in DeckIds :
        (ups[i].kind = "http" /\ ups[i].code = 200 /\ ups[i].returned = d)
        ~> (decks[d].status \in {"analyzed", "failed"})

\* An upload the endpoint must refuse: no file name, a name that does not end
\* in .pdf in any letter case, or more than 20 MB.
BadUpload(file, size) ==
    \/ file = <<>>
    \/ file[Len(file)] \notin {".pdf", ".PDF"}
    \/ size > 20 * 1024 * 1024

\* C19: a request with such an upload, and a trigger for a document that
\* does not exist for the caller, are answered at once with an error: no
\* document is created or changed and no background task is queued.
C19_RejectedSynchronously ==
    [][/\ \A i \in UpIds :
             (ups[i].pc = "idle" /\ ups'[i].kind = "http"
                /\ BadUpload(ups'[i].file, ups'[i].size)) =>
                   /\ ups'[i].pc = "done" /\ ups'[i].code = 400 /\ ups'[i].returned = 0
                   /\ decks' = decks /\ analyses' = analyses /\ runs' = runs
       /\ \A t \in TrigIds, d \in DeckIds, u \in Users :
             (trig[t].pc = "idle" /\ trig'[t].pc # "idle" /\ trig'[t].deck = d
                /\ trig'[t].user = u /\ ~(decks[d].ex /\ decks[d].user = u)) =>
                   /\ trig'[t].pc = "done" /\ trig'[t].outcome = "not_found"
                   /\ decks' = decks /\ analyses' = analyses /\ runs' = runs]_vars

C19_Witness ==
    /\ \E i \in UpIds : ups[i].code = 400 /\ ups[i].size > UploadLimit /\ ups[i].file = <<"DECK", ".PDF">>
    /\ \E t \in TrigIds : trig[t].outcome = "not_found" /\ trig[t].user = "u2"
    /\ \E d \in DeckIds : decks[d].ex

(***************************************************************************)
(* Claims about web search.                                                *)
(***************************************************************************)
\* C20: a research search comes back after an attempt in which a web call
\* raised only when that attempt was the third, and then with an empty
\* result set.
C20_SearchRetriedThrice ==
    (svc.fn \in Searches /\ svc.pc = "done" /\ svc.failed) =>
        (svc.attempt = StopAfterAttempt /\ svc.out = <<>>)

(***************************************************************************)
(* Claims about the research phase and the Consensus call of a run.        *)
(***************************************************************************)
\* C21: when the research phase of a run raised, the three analysts and the
\* Consensus agent are called with the "unavailable" marker as research
\* context, and the run does not fail for it.
C21_ResearchFailureContinues ==
    \A r \in RunIds :
        runs[r].res_raised =>
            /\ \A a \in Analysts : runs[r].given[a] = "unavailable"
            /\ runs[r].pc # "agents" => runs[r].given["Consensus"] = "unavailable"
            /\ runs[r].end \in {"failed", "except_failed"} => runs[r].null_crm

C21_Witness ==
    \E r \in RunIds :
        /\ runs[r].res_raised /\ runs[r].pc = "done" /\ runs[r].end = "saved"
        /\ runs[r].given["Consensus"] = "unavailable"
        /\ decks[runs[r].deck].status = "analyzed"

C23_EnrichmentPrecedence ==
    (svc.fn = "list_decks" /\ svc.pc = "done") =>
        LET s == svc.smart_data
            a == svc.analysis_data
            f == svc.final_crm
        IN  /\ \A k \in {"tam", "stage"} :
                 /\ a[k] = "consensus" => f[k] = "consensus"
                 /\ a[k] \in {"absent", "null", "empty"} => f[k] = s[k]
            /\ a.stage = "zero" => f.stage = "zero"
            /\ (s.tam = "deck" /\ a.tam # "consensus") => f.tam = "deck"

C23_Witness ==
    /\ svc.fn = "list_decks" /\ svc.pc = "done"
    /\ svc.smart_data = [tam |-> "deck", stage |-> "deck"]
    /\ svc.analysis_data = [tam |-> "absent", stage |-> "empty"]
    /\ svc.final_crm = [tam |-> "deck", stage |-> "deck"]

\* C24: when a second run of a document, started after the first had ended,
\* has saved its analysis and its research was unavailable, the document
\* holds no research TAM (the only one there could be is the first run's).
C24_ResearchSuperseded ==
    \A d \in DeckIds :
        (/\ runs[1].pc = "done" /\ runs[1].deck = d
         /\ runs[2].pc = "done" /\ runs[2].deck = d
         /\ runs[2].end = "saved" /\ runs[2].res_raised)
        => decks[d].crm.tam # "research"

C26_MessagesAppendOnly ==
    chat.del.pc = "idle" =>
        \A c \in 1..MaxConvs :
            chat.convs[c].state = "live" => chat.msgs[c] = chat.ever[c]

(***************************************************************************)
(* Claims about fingerprints and about the start of a run.                 *)
(***************************************************************************)
\* C27: no two rows of one owner hold the same content fingerprint.
C27_OneDeckPerFingerprint ==
    \A d1, d2 \in DeckIds :
        (d1 # d2 /\ decks[d1].ex /\ decks[d2].ex /\ decks[d1].user = decks[d2].user)
        => decks[d1].hash # decks[d2].hash

\* C28: while a run is between its first research call and its save, the
\* status of its document is analyzing.
C28_RunOnlyWhileAnalyzing ==
    \A r \in RunIds :
        (runs[r].pc \in {"research", "agents", "consensus", "save", "status"}
            /\ decks[runs[r].deck].ex)
        => decks[runs[r].deck].status = "analyzing"

\* C29: the document of SpecRun has a TAM from extraction; after a run has
\* ended with its analysis saved the document's crm_data still holds a TAM.
C29_ExtractionTamKept ==
    \A r \in RunIds :
        (runs[r].pc = "done" /\ runs[r].end = "saved" /\ decks[runs[r].deck].ex)
        => decks[runs[r].deck].crm.tam \notin {"null", "absent"}

\* C30: a tool call whose arguments are not a JSON document does not end the
\* function: after it the loop is at the next tool call, at the next
\* completion, or past its fifth and last iteration, and the function does
\* not return the error reply.
C30_BadArgumentsContinue ==
    [][(chat.pc = "tools" /\ Head(chat.pending).args = "not_json" /\ chat' # chat) =>
          /\ chat'.pending = Tail(chat.pending)
          /\ chat'.pc = IF chat'.pending # <<>> THEN "tools"
                        ELSE IF chat.llm_calls < MaxToolLoops THEN "llm" ELSE "done"
          /\ chat'.reply # Reply_Error]_vars

\* C31: when a completion after the first is about to be requested, the
\* messages after the last assistant message are the tool messages of its
\* tool calls, one for each call and in the order of the calls.
C31_ResultsBeforeNextCall ==
    (chat.pc = "llm" /\ chat.llm_calls >= 1) =>
        /\ chat.asked >= 1
        /\ chat.after = [k \in 1..chat.asked |-> k]

C31_Witness ==
    /\ chat.pc = "llm"
    /\ chat.llm_calls >= 2
    /\ chat.asked = MaxCalls
    /\ chat.log["unknown"] >= 1
    /\ chat.log["failed"] >= 1

\* C32: when the fifth completion still asks for tools and no call raises,
\* the function returns a text of the conversation (the text of a tool
\* message, written here as its kind, or the text of an assistant message)
\* and not a sentence of its own.
C32_LastTextReturned ==
    (chat.pc = "done" /\ chat.llm_calls = MaxToolLoops /\ chat.last # "assistant"
        /\ chat.reply # Reply_Error)
    => chat.reply \in MsgKinds \cup {"answer"}

\* C39: no tool call with a name of ALL_TOOLS is answered with the
\* "Unknown tool" string: the message list never holds such a tool message.
C39_AdvertisedToolsHandled ==
    chat.log["unknown"] = 0

C34_ChunksBreakAtBoundary ==
    (svc.fn = "_chunk_text" /\ svc.pc = "done") =>
        \A k \in DOMAIN svc.chunks :
            LET c == svc.chunks[k]
                stop == c.start + ChunkSize
                past == {p \in svc.text.dots \cup svc.text.nls :
                            p < stop /\ p - c.start > ChunkSize \div 2}
            IN  /\ c.end - c.start <= ChunkSize
                /\ stop < svc.text.len =>
                      c.end = IF past = {} THEN stop
                              ELSE (CHOOSE p \in past : \A q \in past : q <= p) + 1
                /\ k < Len(svc.chunks) => svc.chunks[k + 1].start = c.end - Overlap

\* C40: in both chunkers every iteration of the loop moves the start of the
\* window forward, and when the loop has ended every position of the text
\* is inside a window.
C40_ChunkingAdvancesAndCovers ==
    [][(svc.fn \in {"_chunk_text", "chunk_text"} /\ svc' # svc) =>
          /\ svc'.pc = "loop" => svc'.start > svc.start
          /\ svc'.pc = "done" =>
                \A p \in 0..(svc.text.len - 1) :
                    \E k \in DOMAIN svc.chunks :
                        svc.chunks[k].start <= p /\ p < svc.chunks[k].end]_vars

C40_Witness ==
    /\ svc.fn = "_chunk_text" /\ svc.pc = "done"
    /\ svc.text.len = MaxText
    /\ Len(svc.chunks) >= 3
    /\ \E k \in DOMAIN svc.chunks : svc.chunks[k].end - svc.chunks[k].start < ChunkSize - Overlap

(***************************************************************************)
(* Claims about ownership.                                                 *)
(***************************************************************************)
\* C35: an archive request or a delete request of a user who does not own
\* the document leaves the document's row, its status included, and its
\* analysis record as they were.
C35_NonOwnerChangesNothing ==
    [][\A d \in DeckIds, u \in Users :
          (decks[d].ex /\ decks[d].user # u /\ (ArchiveDeck(d, u) \/ DeleteAnalysis(d, u)))
          => (decks'[d] = decks[d] /\ analyses'[d] = analyses[d])]_vars

(***************************************************************************)
(* Claims about the analysis endpoint.                                     *)
(***************************************************************************)
\* C37: whenever the owner of a document asks for its analysis, the status
\* in the response is a lifecycle value and is the status stored in the
\* document's row at that moment.
C37_ReportedStatusIsStored ==
    \A d \in DeckIds, st \in env.store :
        decks[d].ex =>
            LET status == GetAnalysisStatus(d, decks[d].user, st)
            IN  /\ status \in {"pending", "processing", "analyzing", "analyzed", "failed", "archived"}
                /\ status = decks[d].status

(***************************************************************************)
(* Claims about the research phase.                                        *)
(***************************************************************************)
\* C38: in a run whose TAM research gave a TAM, an empty competitor list
\* included, the analysts are given the research facts, not the
\* "unavailable" marker, and the run's crm_update holds the TAM.
C38_TamSurvivesNoCompetitors ==
    \A r \in RunIds :
        (runs[r].pc \in {"agents", "consensus"} /\ runs[r].res \in {"tam", "tam_alone"})
        => /\ \A a \in Analysts : runs[r].given[a] = "verified"
           /\ runs[r].crm_update.tam = "research"

(***************************************************************************)
(* Claims about the chunks of a document.                                  *)
(***************************************************************************)
\* C36: when no upload and no delete is in progress, the chunks stored for
\* a document all come from the text its row holds, and from one ingestion
\* of it.
C36_ChunksOfCurrentText ==
    ((\A i \in UpIds : ups[i].pc \in {"idle", "done"}) /\ dele.pc = "idle") =>
        \A d \in DeckIds :
            decks[d].ex =>
                /\ \A i \in StoredChunks(d) : ups[i].text = decks[d].text
                /\ Cardinality(StoredChunks(d)) <= 1
====
